---- MODULE Spec2Model ----
(***************************************************************************)
(* Model of the extraction engine of geoapp.py (Daily Geological Report     *)
(* Analyzer): extract_well_info, extract_depths, extract_formation_tops,    *)
(* extract_gas_readings, extract_lithological_description and               *)
(* extract_detailed_gas_readings.                                           *)
(*                                                                          *)
(* A sheet (pandas DataFrame read with header=None) is a sequence of rows   *)
(* of equal width; a cell is either the missing value NaN or a text.  A     *)
(* text is a sequence of lexical atoms (digits, '.', ' ', words), so that   *)
(* Python's  `x in s`, str.replace, str.isdigit, str.strip, float() and the *)
(* two regular expressions are computed on the text and not assumed.        *)
(* A numeric cell is represented by its str() form.  Row and column         *)
(* indices are 1-based here (0-based in the source).                        *)
(***************************************************************************)
EXTENDS Integers, Sequences, FiniteSets, TLC

VARIABLES
    fn,                  \* the extraction function being run
    df,                  \* its input sheet
    pc,                  \* position in the function: a loop, "finish", "done"
    idx,                 \* row the loop is at (1-based)
    col,                 \* cell the inner loop is at (1-based), where cells are steps
    well_info,           \* extract_well_info: result dict
    depths,              \* extract_depths: result dict
    formations,          \* extract_formation_tops: result list
    gas_data,            \* extract_gas_readings: result dict
    descriptions,        \* extract_lithological_description: result list
    gas_readings,        \* extract_detailed_gas_readings: result list
    header_found,        \* extract_formation_tops / extract_detailed_gas_readings
    header_row,
    current_formation,   \* extract_gas_readings
    current_depth,       \* extract_lithological_description
    current_lithology,
    current_description,
    src                  \* history: for each emitted list element, the row it came from

vars == <<fn, df, pc, idx, col, well_info, depths, formations, gas_data, descriptions,
          gas_readings, header_found, header_row, current_formation, current_depth,
          current_lithology, current_description, src>>

-----------------------------------------------------------------------------
(* Bounds of the model *)

MaxDepthRows == 3
MaxTopsRows == 3
MaxDetailRows == 3
MaxLithoRows == 4
MaxWellRows == 3
MaxGasRows == 4
FracDigits == 1

-----------------------------------------------------------------------------
(* Cells and texts *)

NaN == <<"NaN">>
None == <<"None">>
EmptyDict == [k \in {} |-> 0]
Digits == {"0", "1", "2", "3", "4", "5", "6", "7", "8", "9"}
Whitespace == {" "}

SP == <<" ">>

notna(cell) == cell # NaN

str(cell) == IF cell = NaN THEN <<"nan">> ELSE cell

\* needle in hay
In(needle, hay) ==
    \E i \in 0..(Len(hay) - Len(needle)) : SubSeq(hay, i + 1, i + Len(needle)) = needle

Lower(a) ==
    CASE a = "Concession" -> "concession"
      [] a = "CONCESSION" -> "concession"
      [] a = "Report" -> "report"
      [] a = "REPORT" -> "report"
      [] a = "No" -> "no"
      [] a = "NO" -> "no"
      [] a = "Well" -> "well"
      [] a = "WELL" -> "well"
      [] a = "Date" -> "date"
      [] a = "RKB" -> "rkb"
      [] a = "Spud" -> "spud"
      [] a = "Geologist" -> "geologist"
      [] a = "GEOLOGIST" -> "geologist"
      [] OTHER -> a

lower(s) == [i \in 1..Len(s) |-> Lower(s[i])]

\* pandas Series.str.contains(label, case=False)
ContainsNoCase(label, s) == In(lower(label), lower(s))

\* s.replace('.', '')
RECURSIVE StripDots(_)
StripDots(s) ==
    IF s = <<>> THEN <<>>
    ELSE IF Head(s) = "." THEN StripDots(Tail(s))
    ELSE <<Head(s)>> \o StripDots(Tail(s))

isdigit(s) == s # <<>> /\ \A i \in 1..Len(s) : s[i] \in Digits

\* str(cell).replace('.', '').isdigit()
DigitTest(cell) == isdigit(StripDots(str(cell)))

RECURSIVE strip(_)
strip(s) ==
    IF s = <<>> THEN <<>>
    ELSE IF Head(s) \in Whitespace THEN strip(Tail(s))
    ELSE IF s[Len(s)] \in Whitespace THEN strip(SubSeq(s, 1, Len(s) - 1))
    ELSE s

\* ' '.join(parts)
RECURSIVE join(_)
join(parts) ==
    IF parts = <<>> THEN <<>>
    ELSE IF Len(parts) = 1 THEN parts[1]
    ELSE parts[1] \o SP \o join(Tail(parts))

\* [str(cell) for cell in row if pd.notna(cell)]
RECURSIVE NonMissing(_)
NonMissing(row) ==
    IF row = <<>> THEN <<>>
    ELSE IF notna(Head(row)) THEN <<str(Head(row))>> \o NonMissing(Tail(row))
    ELSE NonMissing(Tail(row))

row_str(row) == join(NonMissing(row))

-----------------------------------------------------------------------------
(* Floats: a float is NaN or a multiple of 10^-FracDigits *)

RECURSIVE Pow10(_)
Pow10(n) == IF n = 0 THEN 1 ELSE 10 * Pow10(n - 1)

Scale == Pow10(FracDigits)

FNaN == [nan |-> TRUE, v |-> 0]
F(n) == [nan |-> FALSE, v |-> n]

DigitVal(a) ==
    CASE a = "0" -> 0 [] a = "1" -> 1 [] a = "2" -> 2 [] a = "3" -> 3 [] a = "4" -> 4
      [] a = "5" -> 5 [] a = "6" -> 6 [] a = "7" -> 7 [] a = "8" -> 8 [] a = "9" -> 9

RECURSIVE NatVal(_)
NatVal(s) == IF s = <<>> THEN 0 ELSE 10 * NatVal(SubSeq(s, 1, Len(s) - 1)) + DigitVal(s[Len(s)])

DotsAt(s) == {i \in 1..Len(s) : s[i] = "."}

\* float(text) raises ValueError unless, once stripped of surrounding whitespace,
\* the text is an optional '-', then digits with at most one '.', and some digit
Unsigned(s) == LET t == strip(s) IN IF t # <<>> /\ Head(t) = "-" THEN Tail(t) ELSE t

ParsesText(s) ==
    LET u == Unsigned(s) IN
    /\ isdigit(StripDots(u))
    /\ Cardinality(DotsAt(u)) <= 1

TextVal(s) ==
    LET u == Unsigned(s)
        neg == strip(s) # <<>> /\ Head(strip(s)) = "-"
        d == IF DotsAt(u) = {} THEN Len(u) + 1 ELSE CHOOSE i \in DotsAt(u) : TRUE
        ip == SubSeq(u, 1, d - 1)
        fp == SubSeq(u, d + 1, Len(u))
        k == IF Len(fp) > FracDigits THEN FracDigits ELSE Len(fp)
        mag == NatVal(ip) * Scale + NatVal(SubSeq(fp, 1, k)) * Pow10(FracDigits - k)
    IN IF neg THEN 0 - mag ELSE mag

\* float(cell): a missing cell is the float nan, which float() returns as it is
FloatRaises(cell) == notna(cell) /\ ~ParsesText(cell)
float(cell) == IF cell = NaN THEN FNaN ELSE F(TextVal(cell))

FSub(a, b) == IF a.nan \/ b.nan THEN FNaN ELSE F(a.v - b.v)

Put(d, k, v) == [x \in (DOMAIN d) \cup {k} |-> IF x = k THEN v ELSE d[x]]

-----------------------------------------------------------------------------
(* Sheets *)

Num(n) ==
    CASE n = 5 -> <<"5">>
      [] n = 7 -> <<"7">>
      [] n = 10 -> <<"1", "0">>
      [] n = 25 -> <<"2", ".", "5">>
      [] n = 100 -> <<"1", "0", "0">>
      [] n = 150 -> <<"1", "5", "0">>

\* the sheets of at most n rows, each row one of Rows
SheetsUpTo(Rows, n) == UNION {[1..k -> Rows] : k \in 0..n}

-----------------------------------------------------------------------------
(* extract_depths *)

L24 == <<"24", ":", "00", " ", "Hrs">>
L00 == <<"00", ":", "00", " ", "Hrs">>
L06 == <<"06", ":", "00", " ", "Hrs">>

DepthLabels == {<<"at", " ">> \o L24, L00, L06 \o <<" ", "depth">>}
DepthValues == {Num(10), Num(25), <<"-", "5">>, <<"n", "/", "a">>, NaN}
DepthRows ==
    {<<l, v>> : l \in DepthLabels, v \in DepthValues} \cup {<<NaN, l>> : l \in DepthLabels}
DepthSheets == SheetsUpTo(DepthRows, MaxDepthRows)

\* one cell of the scan: the if / elif / elif chain of the inner loop
DepthKeyOf(cell_str) ==
    IF In(L24, cell_str) THEN "depth_24hr"
    ELSE IF In(L00, cell_str) THEN "depth_00hr"
    ELSE IF In(L06, cell_str) THEN "depth_06hr"
    ELSE "none"

DepthCell(d, row, col_idx) ==
    LET key == DepthKeyOf(str(row[col_idx])) IN
    IF key # "none" /\ col_idx + 1 <= Len(row) /\ ~FloatRaises(row[col_idx + 1])
    THEN Put(d, key, float(row[col_idx + 1]))
    ELSE d

RECURSIVE DepthRow(_, _, _)
DepthRow(d, row, col_idx) ==
    IF col_idx > Len(row) THEN d ELSE DepthRow(DepthCell(d, row, col_idx), row, col_idx + 1)

CalcProgressSwapped(d) ==
    LET d1 == IF "depth_24hr" \in DOMAIN d /\ "depth_00hr" \in DOMAIN d
              THEN Put(d, "progress_24hr", FSub(d["depth_24hr"], d["depth_00hr"]))
              ELSE d
    IN IF "depth_00hr" \in DOMAIN d1 /\ "depth_06hr" \in DOMAIN d1
       THEN Put(d1, "progress_6hr", FSub(d1["depth_06hr"], d1["depth_00hr"]))
       ELSE d1

CalcProgress(d) ==
    LET d1 == IF "depth_24hr" \in DOMAIN d /\ "depth_00hr" \in DOMAIN d
              THEN Put(d, "progress_24hr", FSub(d["depth_00hr"], d["depth_24hr"]))
              ELSE d
    IN IF "depth_00hr" \in DOMAIN d1 /\ "depth_06hr" \in DOMAIN d1
       THEN Put(d1, "progress_6hr", FSub(d1["depth_06hr"], d1["depth_00hr"]))
       ELSE d1

Idle ==
    /\ well_info = EmptyDict
    /\ depths = EmptyDict
    /\ formations = <<>>
    /\ gas_data = EmptyDict
    /\ descriptions = <<>>
    /\ gas_readings = <<>>
    /\ header_found = FALSE
    /\ header_row = 0
    /\ current_formation = None
    /\ current_depth = None
    /\ current_lithology = None
    /\ current_description = <<>>
    /\ src = <<>>
    /\ idx = 1
    /\ col = 1

InitDepths ==
    /\ fn = "extract_depths"
    /\ df \in DepthSheets
    /\ pc = "rows"
    /\ Idle

DepthsRow ==
    /\ fn = "extract_depths" /\ pc = "rows" /\ idx <= Len(df)
    /\ depths' = DepthRow(depths, df[idx], 1)
    /\ idx' = idx + 1
    /\ UNCHANGED <<col, fn, df, pc, well_info, formations, gas_data, descriptions, gas_readings,
                   header_found, header_row, current_formation, current_depth,
                   current_lithology, current_description, src>>

DepthsReturn ==
    /\ fn = "extract_depths" /\ pc = "rows" /\ idx > Len(df)
    /\ depths' = CalcProgress(depths)
    /\ pc' = "done"
    /\ UNCHANGED <<col, fn, df, idx, well_info, formations, gas_data, descriptions, gas_readings,
                   header_found, header_row, current_formation, current_depth,
                   current_lithology, current_description, src>>

NextDepths == DepthsRow \/ DepthsReturn

SpecDepths == InitDepths /\ [][NextDepths]_vars

-----------------------------------------------------------------------------
(* extract_formation_tops *)

NameCol == 2
PrognosedCol == 7
ActualCol == 9

\* row.iloc[c], c 0-based
iloc(row, c) == row[c + 1]

\* a row of width w holding the given cells at the given 0-based columns
RowOf(w, cells) == [i \in 1..w |-> IF (i - 1) \in DOMAIN cells THEN cells[i - 1] ELSE NaN]

FormationName == <<"Formation", " ", "Name">>
Prognosed == <<"Prognosed">>
ActualDrilled == <<"Actual", " ", "Drilled">>

TopsDenylistShort ==
    {<<>>, <<" ">>, <<"DABAA">>, <<"APOLLONIA">>, <<"KHOMAN">>, <<"ABU", " ", "ROASH">>,
     <<"BAHARIYA">>, <<"KHARITA">>}

TopsDenylist ==
    {<<>>, <<" ">>, <<"DABAA">>, <<"APOLLONIA">>, <<"KHOMAN">>, <<"ABU", " ", "ROASH">>,
     <<"BAHARIYA">>, <<"KHARITA">>, <<"T", ".", "D", ".">>}

IsTopsHeader(row) ==
    LET rs == row_str(row) IN In(FormationName, rs) /\ In(Prognosed, rs) /\ In(ActualDrilled, rs)

TopsNameOk(row) ==
    Len(row) > NameCol /\ notna(iloc(row, NameCol)) /\ iloc(row, NameCol) \notin TopsDenylist

\* the guarded float(row.iloc[c]) of one sub-field; a ValueError leaves it absent
TopsField(fd, row, key, c) ==
    IF Len(row) > c /\ notna(iloc(row, c)) /\ DigitTest(iloc(row, c)) /\ ~FloatRaises(iloc(row, c))
    THEN Put(fd, key, float(iloc(row, c)))
    ELSE fd

formation_dataSwapped(row) ==
    TopsField(TopsField(Put(EmptyDict, "name", str(iloc(row, NameCol))),
                        row, "prognosed_md", ActualCol),
              row, "actual_md", PrognosedCol)

formation_data(row) ==
    TopsField(TopsField(Put(EmptyDict, "name", str(iloc(row, NameCol))),
                        row, "prognosed_md", PrognosedCol),
              row, "actual_md", ActualCol)

\* column-2 texts of the sheet that name no formation
NonFormations ==
    {<<>>, <<" ">>, <<"DABAA">>, <<"APOLLONIA">>, <<"KHOMAN">>, <<"ABU", " ", "ROASH">>,
     <<"BAHARIYA">>, <<"KHARITA">>, <<"T", ".", "D", ".">>}

TopsWidths == {NameCol, PrognosedCol + 1, ActualCol + 1}

TopsCells ==
    {(0 :> FormationName @@ 1 :> Prognosed @@ 2 :> ActualDrilled),
     (0 :> FormationName @@ 1 :> Prognosed),
     << >>,
     (2 :> <<"ASL">>),
     (2 :> <<"ASL">> @@ 7 :> Num(100) @@ 9 :> Num(150)),
     (2 :> <<"ARC">> @@ 7 :> <<"1", ".", ".">> @@ 9 :> Num(25)),
     (2 :> <<"DABAA", " ">> @@ 7 :> <<"n", "/", "a">> @@ 9 :> <<"1", ".", "5", ".">>)}
    \cup {(2 :> d @@ 7 :> Num(100) @@ 9 :> Num(150)) : d \in NonFormations}

TopsSheets ==
    UNION {SheetsUpTo({RowOf(w, c) : c \in TopsCells}, MaxTopsRows) : w \in TopsWidths}

InitTops ==
    /\ fn = "extract_formation_tops"
    /\ df \in TopsSheets
    /\ pc = "rows"
    /\ Idle

TopsRow ==
    /\ fn = "extract_formation_tops" /\ pc = "rows" /\ idx <= Len(df)
    /\ idx' = idx + 1
    /\ IF IsTopsHeader(df[idx])
       THEN /\ header_found' = TRUE
            /\ header_row' = idx
            /\ UNCHANGED <<formations, src>>
       ELSE /\ UNCHANGED <<header_found, header_row>>
            /\ IF header_found /\ idx > header_row /\ TopsNameOk(df[idx])
               THEN /\ formations' = Append(formations, formation_data(df[idx]))
                    /\ src' = Append(src, idx)
               ELSE UNCHANGED <<formations, src>>
    /\ UNCHANGED <<col, fn, df, pc, well_info, depths, gas_data, descriptions, gas_readings,
                   current_formation, current_depth, current_lithology,
                   current_description>>

TopsReturn ==
    /\ fn = "extract_formation_tops" /\ pc = "rows" /\ idx > Len(df)
    /\ pc' = "done"
    /\ UNCHANGED <<col, fn, df, idx, well_info, depths, formations, gas_data, descriptions,
                   gas_readings, header_found, header_row, current_formation,
                   current_depth, current_lithology, current_description, src>>

NextTops == TopsRow \/ TopsReturn

SpecTops == InitTops /\ [][NextTops]_vars

-----------------------------------------------------------------------------
(* extract_detailed_gas_readings *)

DepthCol == 0
FirstGasCol == 7
GasKeys == <<"TG", "C1", "C2", "C3", "C4I", "C4N", "C5">>

IsGasHeader(row) ==
    LET rs == row_str(row) IN In(<<"DEPTH">>, rs) /\ In(<<"TG">>, rs) /\ In(<<"C1">>, rs)

IsDataRowNoDigitTest(row) ==
    Len(row) > DepthCol /\ notna(iloc(row, DepthCol))

IsDataRow(row) ==
    Len(row) > DepthCol /\ notna(iloc(row, DepthCol)) /\ DigitTest(iloc(row, DepthCol))

GasCellNumeric(row, c) == notna(iloc(row, c)) /\ DigitTest(iloc(row, c))

\* the seven `if len(row) > c: reading[key] = float(...) if ... else 0` statements
RECURSIVE GasFields(_, _, _)
GasFields(reading, row, i) ==
    IF i > Len(GasKeys) THEN reading
    ELSE LET c == FirstGasCol + i - 1 IN
         GasFields(IF Len(row) > c
                   THEN Put(reading, GasKeys[i],
                            IF GasCellNumeric(row, c) THEN float(iloc(row, c)) ELSE F(0))
                   ELSE reading,
                   row, i + 1)

\* some float() of the try block raises: the except clause skips the row
ReadingRaises(row) ==
    \/ FloatRaises(iloc(row, DepthCol))
    \/ \E i \in 1..Len(GasKeys) :
          LET c == FirstGasCol + i - 1 IN
          Len(row) > c /\ GasCellNumeric(row, c) /\ FloatRaises(iloc(row, c))

reading(row) == GasFields(Put(EmptyDict, "DEPTH", float(iloc(row, DepthCol))), row, 1)

DetailWidths == {1, FirstGasCol + 1, FirstGasCol + Len(GasKeys)}

DetailHeader == <<"DEPTH", " ", "TG", " ", "C1">>

DetailCells ==
    {(0 :> DetailHeader),
     (0 :> <<"DEPTH", " ", "TG">> @@ 7 :> Num(5)),
     << >>,
     (0 :> Num(100)),
     (0 :> Num(25) @@ 7 :> Num(5) @@ 8 :> Num(7)),
     (0 :> <<"1", ".", ".">> @@ 7 :> Num(5)),
     (0 :> <<"T", ".", "D", ".">> @@ 7 :> Num(5)),
     (0 :> <<"-", "5">> @@ 7 :> Num(5)),
     (0 :> Num(150) @@ 7 :> Num(5) @@ 8 :> Num(7) @@ 9 :> Num(10) @@ 10 :> Num(25)
        @@ 11 :> Num(100) @@ 12 :> Num(150) @@ 13 :> <<"9">>),
     (0 :> Num(10) @@ 7 :> <<"n", "/", "a">> @@ 9 :> <<"-", "5">> @@ 13 :> Num(7)),
     (0 :> Num(7) @@ 7 :> Num(5) @@ 8 :> <<"1", ".", "2", ".", "3">>)}

DetailSheets ==
    UNION {SheetsUpTo({RowOf(w, c) : c \in DetailCells}, MaxDetailRows) : w \in DetailWidths}

InitDetail ==
    /\ fn = "extract_detailed_gas_readings"
    /\ df \in DetailSheets
    /\ pc = "rows"
    /\ Idle

DetailRow ==
    /\ fn = "extract_detailed_gas_readings" /\ pc = "rows" /\ idx <= Len(df)
    /\ idx' = idx + 1
    /\ IF IsGasHeader(df[idx])
       THEN /\ header_found' = TRUE
            /\ header_row' = idx
            /\ UNCHANGED <<gas_readings, src>>
       ELSE /\ UNCHANGED <<header_found, header_row>>
            /\ IF /\ header_found /\ idx > header_row
                  /\ IsDataRow(df[idx]) /\ ~ReadingRaises(df[idx])
               THEN /\ gas_readings' = Append(gas_readings, reading(df[idx]))
                    /\ src' = Append(src, idx)
               ELSE UNCHANGED <<gas_readings, src>>
    /\ UNCHANGED <<col, fn, df, pc, well_info, depths, formations, gas_data, descriptions,
                   current_formation, current_depth, current_lithology,
                   current_description>>

DetailReturn ==
    /\ fn = "extract_detailed_gas_readings" /\ pc = "rows" /\ idx > Len(df)
    /\ pc' = "done"
    /\ UNCHANGED <<col, fn, df, idx, well_info, depths, formations, gas_data, descriptions,
                   gas_readings, header_found, header_row, current_formation,
                   current_depth, current_lithology, current_description, src>>

NextDetail == DetailRow \/ DetailReturn

SpecDetail == InitDetail /\ [][NextDetail]_vars

-----------------------------------------------------------------------------
(* extract_lithological_description *)

DepthMark == <<"Depth", ":">>
LithologyMark == <<"Lithology", ":">>
Boilerplate ==
    {<<"North", " ", "Bahariya">>, <<"Well">>, <<"Date">>,
     <<"Lithological", " ", "Description">>}

\* positions of s, from position `from` on, that hold a digit / the atom a
DigitsFrom(s, from) == {i \in from..Len(s) : s[i] \in Digits}
AtomFrom(s, a, from) == {i \in from..Len(s) : s[i] = a}
Min(S) == CHOOSE x \in S : \A y \in S : x <= y

\* end of the maximal run of digits that starts at position i
RECURSIVE RunEnd(_, _)
RunEnd(s, i) == IF i < Len(s) /\ s[i + 1] \in Digits THEN RunEnd(s, i + 1) ELSE i

\* re.search(r'From.*?(\d+).*?To.*?(\d+)', s): the leftmost 'From', the first run
\* of digits after it, the first 'To' after that run, the first run of digits after it
DepthMatch(s) ==
    IF AtomFrom(s, "From", 1) = {} THEN None
    ELSE LET f == Min(AtomFrom(s, "From", 1)) IN
    IF DigitsFrom(s, f + 1) = {} THEN None
    ELSE LET d1 == Min(DigitsFrom(s, f + 1))
             e1 == RunEnd(s, d1) IN
    IF AtomFrom(s, "To", e1 + 1) = {} THEN None
    ELSE LET t == Min(AtomFrom(s, "To", e1 + 1)) IN
    IF DigitsFrom(s, t + 1) = {} THEN None
    ELSE LET d2 == Min(DigitsFrom(s, t + 1))
             e2 == RunEnd(s, d2) IN
         <<SubSeq(s, d1, e1), SubSeq(s, d2, e2)>>

\* f"{depth_match.group(1)} - {depth_match.group(2)}"
DepthRange(match) == match[1] \o <<" ", "-", " ">> \o match[2]

\* first position at or after i that holds no whitespace (Len(s) + 1 if none)
RECURSIVE SkipSpace(_, _)
SkipSpace(s, i) == IF i <= Len(s) /\ s[i] \in Whitespace THEN SkipSpace(s, i + 1) ELSE i

\* re.search(r'Lithology:\s*\*\s*(.*?)$', s): group(1), or None
LithologyMatch(s) ==
    LET starts == {i \in 1..(Len(s) - 1) :
                      /\ SubSeq(s, i, i + 1) = LithologyMark
                      /\ SkipSpace(s, i + 2) <= Len(s)
                      /\ s[SkipSpace(s, i + 2)] = "*"}
    IN IF starts = {} THEN None
       ELSE LET star == SkipSpace(s, Min(starts) + 2) IN
            SubSeq(s, SkipSpace(s, star + 1), Len(s))

\* Python truth value of current_depth / current_lithology
Truthy(x) == x # None /\ x # <<>>

IsDescriptionText(s) == strip(s) # <<>> /\ \A keyword \in Boilerplate : ~In(keyword, s)

\* current_depth after a 'Depth:' row of text rs: assigned only on a match
DepthAfterReset(current, rs) ==
    IF DepthMatch(rs) # None THEN DepthRange(DepthMatch(rs)) ELSE None

DepthAfter(current, rs) ==
    IF DepthMatch(rs) # None THEN DepthRange(DepthMatch(rs)) ELSE current

\* current_lithology after a 'Lithology:' row of text rs: assigned only on a match
LithologyAfter(current, rs) ==
    IF LithologyMatch(rs) # None THEN strip(LithologyMatch(rs)) ELSE current

\* the `if current_depth and current_lithology and current_description` append
FlushAlways(descs, d, l, buf) ==
    Append(descs, [depth |-> d, lithology |-> l, description |-> join(buf)])

Flush(descs, d, l, buf) ==
    IF Truthy(d) /\ Truthy(l) /\ buf # <<>>
    THEN Append(descs, [depth |-> d, lithology |-> l, description |-> join(buf)])
    ELSE descs

LithoCoreRows ==
    {<<DepthMark, <<"From", " ", "1", "0", "0", " ", "To", " ", "1", "5", "0">>>>,
     <<DepthMark \o <<" ", "From", " ", "1", "5", "0", "ft", " ", "To", "2", "0", "0">>, NaN>>,
     <<LithologyMark \o <<" ", "*", " ", "Sandstone", " ">>, NaN>>,
     <<<<" ", "Fine", " ", "grained", ",">>, <<"gray", " ">>>>}

LithoRows ==
    LithoCoreRows \cup
    {<<DepthMark \o <<" ", "From", " ", "2", "0", "0">>, <<"To", " ", "T", ".", "D", ".">>>>,
     <<LithologyMark, <<"*">>>>,
     <<NaN, LithologyMark \o <<" ", "Shale">>>>,
     <<NaN, <<"Hard">>>>,
     <<<<"Well">>, <<"X-1">>>>,
     <<<<" ">>, NaN>>}

\* every sheet of up to MaxLithoRows rows, and the sheets of one row more that
\* hold only well-formed 'Depth:', 'Lithology:' and text rows
LithoSheets == SheetsUpTo(LithoRows, MaxLithoRows) \cup SheetsUpTo(LithoCoreRows, MaxLithoRows + 1)

InitLitho ==
    /\ fn = "extract_lithological_description"
    /\ df \in LithoSheets
    /\ pc = "rows"
    /\ Idle

LithoRow ==
    /\ fn = "extract_lithological_description" /\ pc = "rows" /\ idx <= Len(df)
    /\ idx' = idx + 1
    /\ LET rs == row_str(df[idx]) IN
       IF In(DepthMark, rs)
       THEN /\ descriptions' = Flush(descriptions, current_depth, current_lithology,
                                     current_description)
            /\ src' = IF descriptions' # descriptions THEN Append(src, idx) ELSE src
            /\ current_description' = <<>>
            /\ current_depth' = DepthAfter(current_depth, rs)
            /\ UNCHANGED current_lithology
       ELSE IF In(LithologyMark, rs)
       THEN /\ current_lithology' = LithologyAfter(current_lithology, rs)
            /\ UNCHANGED <<descriptions, src, current_description, current_depth>>
       ELSE IF IsDescriptionText(rs)
       THEN /\ current_description' = Append(current_description, strip(rs))
            /\ UNCHANGED <<descriptions, src, current_depth, current_lithology>>
       ELSE UNCHANGED <<descriptions, src, current_description, current_depth,
                        current_lithology>>
    /\ UNCHANGED <<col, fn, df, pc, well_info, depths, formations, gas_data, gas_readings,
                   header_found, header_row, current_formation>>

LithoReturn ==
    /\ fn = "extract_lithological_description" /\ pc = "rows" /\ idx > Len(df)
    /\ descriptions' = Flush(descriptions, current_depth, current_lithology,
                             current_description)
    /\ src' = IF descriptions' # descriptions THEN Append(src, idx) ELSE src
    /\ pc' = "done"
    /\ UNCHANGED <<col, fn, df, idx, well_info, depths, formations, gas_data, gas_readings,
                   header_found, header_row, current_formation, current_depth,
                   current_lithology, current_description>>

NextLitho == LithoRow \/ LithoReturn

SpecLitho == InitLitho /\ [][NextLitho]_vars

-----------------------------------------------------------------------------
(* extract_well_info *)

GeoWindow == 10

Fields == <<"concession", "well", "date", "report_no", "rkb", "spud_date", "geologist">>

Label(field) ==
    CASE field = "concession" -> <<"Concession">>
      [] field = "well" -> <<"Well">>
      [] field = "date" -> <<"Date">>
      [] field = "report_no" -> <<"Report", " ", "No">>
      [] field = "rkb" -> <<"RKB">>
      [] field = "spud_date" -> <<"Spud", " ", "Date">>
      [] field = "geologist" -> <<"Geologist">>

Marker == <<":-">>

\* the fields whose inner test is `label in str(cell) and ':-' in str(cell)`
NeedsMarkerNever(field) == FALSE

NeedsMarker(field) == field \in {"well", "date", "rkb"}

\* the test of the inner loop on one cell
IsLabelCell(field, cell) ==
    In(Label(field), str(cell)) /\ (NeedsMarker(field) => In(Marker, str(cell)))

\* df.apply(lambda row: row.astype(str).str.contains(label, case=False).any(), axis=1)
RowMatches(field, row) == \E c \in 1..Len(row) : ContainsNoCase(Label(field), str(row[c]))

\* the inner loop over one selected row: the first label cell sets the field if it
\* has a right-hand neighbour, and ends the loop either way
FieldRow(info, field, row) ==
    LET hits == {c \in 1..Len(row) : IsLabelCell(field, row[c])} IN
    IF hits = {} THEN info
    ELSE LET col_idx == Min(hits) IN
         IF col_idx + 1 <= Len(row) THEN Put(info, field, str(row[col_idx + 1])) ELSE info

\* the loop over the selected rows, top to bottom, from row r on
RECURSIVE FieldRowsFirstWins(_, _, _, _)
FieldRowsFirstWins(info, field, sheet, r) ==
    IF r > Len(sheet) THEN info
    ELSE FieldRowsFirstWins(IF RowMatches(field, sheet[r]) /\ field \notin DOMAIN info
                            THEN FieldRow(info, field, sheet[r]) ELSE info,
                            field, sheet, r + 1)

RECURSIVE FieldRows(_, _, _, _)
FieldRows(info, field, sheet, r) ==
    IF r > Len(sheet) THEN info
    ELSE FieldRows(IF RowMatches(field, sheet[r]) THEN FieldRow(info, field, sheet[r]) ELSE info,
                   field, sheet, r + 1)

KnownNames == {<<"Youssef">>, <<"Mahmoud">>, <<"Soliman">>}

IsNameCell(cell) == \E n \in KnownNames : In(n, str(cell))

\* the inner loop of the fallback over one row
NameRow(info, row) ==
    LET hits == {c \in 1..Len(row) : IsNameCell(row[c])} IN
    IF hits = {} THEN info ELSE Put(info, "geologist", str(row[Min(hits)]))

Max(a, b) == IF a >= b THEN a ELSE b

\* for idx in range(len(df)-1, max(0, len(df)-10), -1), idx 0-based: row i here
\* is row idx = i - 1 of the source
RECURSIVE NameRows(_, _, _)
NameRows(info, sheet, i) ==
    IF i - 1 <= Max(0, Len(sheet) - GeoWindow) THEN info
    ELSE NameRows(NameRow(info, sheet[i]), sheet, i - 1)

Geologist(info, sheet) ==
    IF \E r \in 1..Len(sheet) : RowMatches("geologist", sheet[r])
    THEN FieldRows(info, "geologist", sheet, 1)
    ELSE NameRows(info, sheet, Len(sheet))

V(a) == <<a>>

WellRows ==
    {<<<<"Concession">>, V("East"), NaN>>,
     <<<<"CONCESSION">>, V("West"), NaN>>,
     <<V("n/a"), NaN, <<"Concession">>>>,
     <<<<"Concession", " ", "area">>, <<"Concession", " ", "name">>, V("North")>>,
     <<<<"Well", " ", "Name", Marker[1]>>, V("X-1"), NaN>>,
     <<<<"Well">>, V("X-2"), <<"Well", Marker[1]>>>>,
     <<<<"Well", " ", "Name">>, <<"Well", Marker[1]>>, V("X-3")>>,
     <<<<"Report", " ", "No">>, Num(7), NaN>>,
     <<NaN, <<"report", " ", "no">>, Num(5)>>,
     <<<<"Spud", " ", "Date">>, V("1-Jan"), NaN>>,
     <<<<"Spud", " ", "Date", Marker[1]>>, V("2-Feb"), NaN>>,
     <<<<"Date", Marker[1]>>, V("3-Mar"), <<"Date">>>>,
     <<<<"RKB">>, Num(10), <<"RKB", Marker[1]>>>>,
     <<NaN, <<"RKB", Marker[1]>>, Num(25)>>}

GeoRows ==
    {<<<<"Geologist">>, V("Adel"), NaN>>,
     <<<<"GEOLOGIST">>, V("Badr"), NaN>>,
     <<<<"Youssef", " ", "A.">>, NaN, NaN>>,
     <<NaN, <<"Mahmoud">>, <<"Soliman">>>>,
     <<NaN, NaN, NaN>>}

\* sheets of GeoWindow + 1 rows, all blank but one or two that name a geologist
GeoLongSheets ==
    LET n == GeoWindow + 1
        names == {r \in GeoRows : \E c \in 1..Len(r) : IsNameCell(r[c])}
    IN {[i \in 1..n |-> IF i = a THEN x ELSE IF i = b THEN y ELSE <<NaN, NaN, NaN>>] :
            a \in 1..n, b \in 1..n, x \in names, y \in names}

WellSheets ==
    SheetsUpTo(WellRows, MaxWellRows) \cup SheetsUpTo(GeoRows, MaxWellRows) \cup GeoLongSheets

InitWell ==
    /\ fn = "extract_well_info"
    /\ df \in WellSheets
    /\ pc = "concession"
    /\ Idle

WellFrame ==
    UNCHANGED <<col, fn, df, idx, depths, formations, gas_data, descriptions, gas_readings,
                header_found, header_row, current_formation, current_depth,
                current_lithology, current_description, src>>

FindConcession ==
    /\ fn = "extract_well_info" /\ pc = "concession"
    /\ well_info' = FieldRows(well_info, "concession", df, 1)
    /\ pc' = "well"
    /\ WellFrame

FindWell ==
    /\ fn = "extract_well_info" /\ pc = "well"
    /\ well_info' = FieldRows(well_info, "well", df, 1)
    /\ pc' = "date"
    /\ WellFrame

FindDate ==
    /\ fn = "extract_well_info" /\ pc = "date"
    /\ well_info' = FieldRows(well_info, "date", df, 1)
    /\ pc' = "report_no"
    /\ WellFrame

FindReportNo ==
    /\ fn = "extract_well_info" /\ pc = "report_no"
    /\ well_info' = FieldRows(well_info, "report_no", df, 1)
    /\ pc' = "rkb"
    /\ WellFrame

FindRKB ==
    /\ fn = "extract_well_info" /\ pc = "rkb"
    /\ well_info' = FieldRows(well_info, "rkb", df, 1)
    /\ pc' = "spud_date"
    /\ WellFrame

FindSpudDate ==
    /\ fn = "extract_well_info" /\ pc = "spud_date"
    /\ well_info' = FieldRows(well_info, "spud_date", df, 1)
    /\ pc' = "geologist"
    /\ WellFrame

FindGeologist ==
    /\ fn = "extract_well_info" /\ pc = "geologist"
    /\ well_info' = Geologist(well_info, df)
    /\ pc' = "done"
    /\ WellFrame

NextWell ==
    \/ FindConcession \/ FindWell \/ FindDate \/ FindReportNo \/ FindRKB \/ FindSpudDate
    \/ FindGeologist

SpecWell == InitWell /\ [][NextWell]_vars

-----------------------------------------------------------------------------
(* extract_gas_readings *)

LookAhead == 5
ValueCol == 3

MaxGasMark == <<"Max", ".", " ", "Gas", " ", "Reading", " ", "at", ":">>
TGMark == <<"T", ".", "G">>

\* row.tolist().index(cell), 0-based: the first cell of the row equal to this one
IndexOf(row, cell) == Min({c \in 1..Len(row) : row[c] = cell}) - 1

\* range(idx + 1, min(idx + 5, len(df))) for the 1-based row r
LookAheadRowsUncapped(sheet, r) == (r + 1)..Len(sheet)

LookAheadRows(sheet, r) ==
    (r + 1)..(IF r + LookAhead - 1 < Len(sheet) THEN r + LookAhead - 1 ELSE Len(sheet))

\* the rows of the look-ahead whose column 3 passes the tests and converts: the
\* first of them is assigned and ends the loop, a ValueError moves on to the next row
TGRows(sheet, r) ==
    {n \in LookAheadRows(sheet, r) :
        /\ Len(sheet[n]) > ValueCol /\ notna(iloc(sheet[n], ValueCol))
        /\ DigitTest(iloc(sheet[n], ValueCol))
        /\ ~FloatRaises(iloc(sheet[n], ValueCol))}

GasRows ==
    {<<MaxGasMark, <<"A">>, NaN, NaN>>,
     <<MaxGasMark, <<"B">>, MaxGasMark, <<"A">>>>,
     <<TGMark \o <<" ", "ppm">>, NaN, NaN, NaN>>,
     <<NaN, NaN, NaN, Num(5)>>,
     <<NaN, NaN, NaN, Num(25)>>,
     <<NaN, NaN, NaN, <<"1", ".", ".">>>>,
     <<NaN, <<"n/a">>, NaN, NaN>>}

GasTailRows ==
    {<<MaxGasMark, <<"A">>, NaN, NaN>>,
     <<NaN, NaN, NaN, Num(5)>>,
     <<NaN, NaN, NaN, <<"1", ".", ".">>>>,
     <<NaN, <<"n/a">>, NaN, NaN>>}

\* every sheet of up to MaxGasRows rows, and the sheets that open a formation and
\* meet 'T.G' in their first row, followed by up to LookAhead rows
GasSheets ==
    SheetsUpTo(GasRows, MaxGasRows)
    \cup {<<<<MaxGasMark, <<"A">>, TGMark, NaN>>>> \o t : t \in SheetsUpTo(GasTailRows, LookAhead)}

InitGas ==
    /\ fn = "extract_gas_readings"
    /\ df \in GasSheets
    /\ pc = "cells"
    /\ Idle

\* one iteration of `for cell in row`, and the move to the next cell or row
GasCell ==
    /\ fn = "extract_gas_readings" /\ pc = "cells" /\ idx <= Len(df)
    /\ LET row == df[idx]
           cell == row[col]
           cell_str == str(cell)
       IN
       /\ IF In(MaxGasMark, cell_str)
          THEN LET cell_idx == IndexOf(row, cell) IN
               IF cell_idx + 1 < Len(row) /\ notna(iloc(row, cell_idx + 1))
               THEN /\ current_formation' = str(iloc(row, cell_idx + 1))
                    /\ gas_data' = Put(gas_data, current_formation', EmptyDict)
               ELSE UNCHANGED <<current_formation, gas_data>>
          ELSE IF In(TGMark, cell_str) /\ Truthy(current_formation)
          THEN /\ gas_data' =
                     IF TGRows(df, idx) = {} THEN gas_data
                     ELSE Put(gas_data, current_formation,
                              Put(gas_data[current_formation], "TG",
                                  float(iloc(df[Min(TGRows(df, idx))], ValueCol))))
               /\ UNCHANGED current_formation
          ELSE UNCHANGED <<current_formation, gas_data>>
       /\ IF col < Len(row)
          THEN col' = col + 1 /\ idx' = idx
          ELSE col' = 1 /\ idx' = idx + 1
    /\ UNCHANGED <<fn, df, pc, well_info, depths, formations, descriptions, gas_readings,
                   header_found, header_row, current_depth, current_lithology,
                   current_description, src>>

GasReturn ==
    /\ fn = "extract_gas_readings" /\ pc = "cells" /\ idx > Len(df)
    /\ pc' = "done"
    /\ UNCHANGED <<col, fn, df, idx, well_info, depths, formations, gas_data, descriptions,
                   gas_readings, header_found, header_row, current_formation,
                   current_depth, current_lithology, current_description, src>>

NextGas == GasCell \/ GasReturn

SpecGas == InitGas /\ [][NextGas]_vars

-----------------------------------------------------------------------------
(* C1: the result of extract_depths contains progress_24hr iff it contains  *)
(* both depth_24hr and depth_00hr, and then progress_24hr = depth_00hr -    *)
(* depth_24hr; it contains progress_6hr iff it contains both depth_00hr and *)
(* depth_06hr, and then progress_6hr = depth_06hr - depth_00hr.             *)
C1_Progress ==
    (fn = "extract_depths" /\ pc = "done") =>
        /\ ("progress_24hr" \in DOMAIN depths)
              <=> ("depth_24hr" \in DOMAIN depths /\ "depth_00hr" \in DOMAIN depths)
        /\ ("progress_24hr" \in DOMAIN depths)
              => depths["progress_24hr"] = FSub(depths["depth_00hr"], depths["depth_24hr"])
        /\ ("progress_6hr" \in DOMAIN depths)
              <=> ("depth_00hr" \in DOMAIN depths /\ "depth_06hr" \in DOMAIN depths)
        /\ ("progress_6hr" \in DOMAIN depths)
              => depths["progress_6hr"] = FSub(depths["depth_06hr"], depths["depth_00hr"])

\* a run in which both progresses were computed, from different finite depths
C1_Witness ==
    /\ fn = "extract_depths" /\ pc = "done"
    /\ "progress_24hr" \in DOMAIN depths /\ "progress_6hr" \in DOMAIN depths
    /\ ~depths["progress_24hr"].nan /\ depths["progress_24hr"].v # 0
    /\ ~depths["progress_6hr"].nan /\ depths["progress_6hr"].v # 0

-----------------------------------------------------------------------------
(* C2: no FormationTop returned by extract_formation_tops has a name equal  *)
(* to a denylist token, and every returned FormationTop comes from a row    *)
(* strictly after a header row (a row whose text contains 'Formation Name', *)
(* 'Prognosed' and 'Actual Drilled') with a non-missing column 2.           *)
C2_Tokens ==
    {<<>>, <<" ">>, <<"DABAA">>, <<"APOLLONIA">>, <<"KHOMAN">>, <<"ABU", " ", "ROASH">>,
     <<"BAHARIYA">>, <<"KHARITA">>, <<"T", ".", "D", ".">>}

C2_HeaderText(row) ==
    /\ In(<<"Formation", " ", "Name">>, row_str(row))
    /\ In(<<"Prognosed">>, row_str(row))
    /\ In(<<"Actual", " ", "Drilled">>, row_str(row))

\* C2: no returned FormationTop is named by a denylist token, and each comes from a
\* row strictly after a header row, with a non-missing column 2 that is its name
C2_Denylist ==
    fn = "extract_formation_tops" =>
        /\ Len(src) = Len(formations)
        /\ \A i \in 1..Len(formations) :
              /\ formations[i]["name"] \notin C2_Tokens
              /\ \E h \in 1..(src[i] - 1) : C2_HeaderText(df[h])
              /\ Len(df[src[i]]) >= 3
              /\ df[src[i]][3] # NaN
              /\ formations[i]["name"] = df[src[i]][3]

\* a finished run that returned a top although denylisted names, and a row with a
\* name before the header, were met
C2_Witness ==
    /\ fn = "extract_formation_tops" /\ pc = "done"
    /\ Len(formations) = 1
    /\ Len(df) = 3
    /\ \E j \in 1..Len(df) : j > header_row /\ df[j][3] \in C2_Tokens

-----------------------------------------------------------------------------
(* C3: extract_detailed_gas_readings never emits a reading for a row whose  *)
(* column 0 is missing or not all-digit after stripping '.', nor for the    *)
(* header row or any row before it; every emitted reading's depth equals    *)
(* column 0 of its row parsed as float, and readings appear in row order    *)
(* with at most one reading per row.                                        *)
C3_HeaderText(row) ==
    /\ In(<<"DEPTH">>, row_str(row)) /\ In(<<"TG">>, row_str(row)) /\ In(<<"C1">>, row_str(row))

\* C3: every reading comes from a non-header row after a header row whose column 0
\* is present and all-digit once '.' is stripped, its DEPTH is float(column 0), and
\* readings are in row order, at most one per row
C3_DepthRows ==
    fn = "extract_detailed_gas_readings" =>
        /\ Len(src) = Len(gas_readings)
        /\ \A i \in 1..Len(gas_readings) :
              LET row == df[src[i]] IN
              /\ row[1] # NaN
              /\ isdigit(StripDots(row[1]))
              /\ ~C3_HeaderText(row)
              /\ \E h \in 1..(src[i] - 1) : C3_HeaderText(df[h])
              /\ ~FloatRaises(row[1])
              /\ gas_readings[i]["DEPTH"] = float(row[1])
        /\ \A i, j \in 1..Len(src) : i < j => src[i] < src[j]

\* a finished run with one reading, where the row before the header had a numeric depth too
C3_Witness ==
    /\ fn = "extract_detailed_gas_readings" /\ pc = "done"
    /\ Len(gas_readings) = 1
    /\ Len(df) = 3
    /\ \A j \in 1..Len(df) : ~C3_HeaderText(df[j]) => DigitTest(df[j][1])

-----------------------------------------------------------------------------
(* C5: every GasReading emitted by extract_detailed_gas_readings carries    *)
(* all seven fields TG, C1, C2, C3, C4I, C4N, C5, each equal to the float   *)
(* value of its column (7 to 13) when that column is present and numeric,   *)
(* and equal to 0 when the column is absent from the grid or its cell is    *)
(* missing or non-numeric.                                                  *)
C5_Key(c) ==
    CASE c = 7 -> "TG" [] c = 8 -> "C1" [] c = 9 -> "C2" [] c = 10 -> "C3"
      [] c = 11 -> "C4I" [] c = 12 -> "C4N" [] c = 13 -> "C5"

\* C5: every emitted reading has all seven gas fields, each the float of its column
\* when present and numeric and 0 when the column is absent, missing or non-numeric
C5_SevenFields ==
    fn = "extract_detailed_gas_readings" =>
        \A i \in 1..Len(gas_readings) : \A c \in 7..13 :
            LET row == df[src[i]] IN
            /\ C5_Key(c) \in DOMAIN gas_readings[i]
            /\ gas_readings[i][C5_Key(c)] =
                  IF Len(row) > c /\ row[c + 1] # NaN /\ isdigit(StripDots(row[c + 1]))
                  THEN float(row[c + 1])
                  ELSE F(0)

-----------------------------------------------------------------------------
(* C4: in extract_lithological_description a LithologyDescription is        *)
(* emitted exactly at a 'Depth:' row or at end of grid, and only when the   *)
(* current depth, the current lithology and the description buffer are all  *)
(* non-empty; records are in source order, and each record's description is *)
(* the space-joined, trimmed text of exactly the non-marker, non-boilerplate,*)
(* non-empty rows seen since the previous 'Depth:' row (the buffer is       *)
(* emptied at every 'Depth:' row, whether or not a record was emitted).     *)
C4_IsDepthRow(j) == In(<<"Depth", ":">>, row_str(df[j]))

C4_IsTextRow(j) ==
    LET rs == row_str(df[j]) IN
    /\ ~In(<<"Depth", ":">>, rs) /\ ~In(<<"Lithology", ":">>, rs)
    /\ ~In(<<"North", " ", "Bahariya">>, rs) /\ ~In(<<"Well">>, rs) /\ ~In(<<"Date">>, rs)
    /\ ~In(<<"Lithological", " ", "Description">>, rs)
    /\ strip(rs) # <<>>

\* the trimmed text rows among rows lo..hi, in order
RECURSIVE C4_TextRows(_, _)
C4_TextRows(lo, hi) ==
    IF lo > hi THEN <<>>
    ELSE (IF C4_IsTextRow(lo) THEN <<strip(row_str(df[lo]))>> ELSE <<>>) \o C4_TextRows(lo + 1, hi)

\* the last 'Depth:' row before row e, 0 if there is none
C4_PrevDepthRow(e) ==
    LET D == {j \in 1..(e - 1) : C4_IsDepthRow(j)} IN
    IF D = {} THEN 0 ELSE CHOOSE j \in D : \A k \in D : k <= j

C4_NonEmpty(x) == x # None /\ x # <<>>

C4_Records ==
    fn = "extract_lithological_description" =>
        /\ Len(src) = Len(descriptions)
        /\ \A i, j \in 1..Len(src) : i < j => src[i] < src[j]
        /\ \A i \in 1..Len(descriptions) :
              /\ src[i] = Len(df) + 1 \/ C4_IsDepthRow(src[i])
              /\ descriptions[i].description
                    = join(C4_TextRows(C4_PrevDepthRow(src[i]) + 1, src[i] - 1))
              /\ descriptions[i].description # <<>>
              /\ C4_NonEmpty(descriptions[i].depth)
              /\ C4_NonEmpty(descriptions[i].lithology)

C4_Step ==
    fn = "extract_lithological_description" =>
        LET atDepth == pc = "rows" /\ idx <= Len(df) /\ C4_IsDepthRow(idx)
            atEnd == pc = "rows" /\ idx > Len(df)
            ready == /\ C4_NonEmpty(current_depth) /\ C4_NonEmpty(current_lithology)
                     /\ current_description # <<>>
        IN /\ descriptions' # descriptions
                => /\ atDepth \/ atEnd
                   /\ ready
                   /\ descriptions' = Append(descriptions,
                                             [depth |-> current_depth,
                                              lithology |-> current_lithology,
                                              description |-> join(current_description)])
           /\ ((atDepth \/ atEnd) /\ ready) => Len(descriptions') = Len(descriptions) + 1
           /\ atDepth => current_description' = <<>>

\* C4: the records always describe the text rows of their sections, in source order,
\* and every step emits a record exactly at a 'Depth:' row or at the end of the grid
\* with depth, lithology and buffer all non-empty, a 'Depth:' row emptying the buffer
C4_Sections == [](C4_Records) /\ [][C4_Step]_vars

\* a finished run with two records, the first emitted at a 'Depth:' row and the
\* second at the end of the grid
C4_Witness ==
    /\ fn = "extract_lithological_description" /\ pc = "done"
    /\ Len(descriptions) = 2
    /\ src[1] <= Len(df) /\ src[2] = Len(df) + 1

-----------------------------------------------------------------------------
(* Well-info claims: cells of the sheet as (row, column) pairs *)

WI_Done == fn = "extract_well_info" /\ pc = "done"

WI_Cells == {rc \in (1..Len(df)) \X (1..3) : rc[2] <= Len(df[rc[1]])}
WI_HasRight(rc) == rc[2] < Len(df[rc[1]])
WI_Right(rc) == str(df[rc[1]][rc[2] + 1])
WI_Text(rc) == str(df[rc[1]][rc[2]])

WI_Label(field) ==
    CASE field = "concession" -> <<"Concession">>
      [] field = "well" -> <<"Well">>
      [] field = "date" -> <<"Date">>
      [] field = "report_no" -> <<"Report", " ", "No">>
      [] field = "rkb" -> <<"RKB">>
      [] field = "spud_date" -> <<"Spud", " ", "Date">>
      [] field = "geologist" -> <<"Geologist">>

-----------------------------------------------------------------------------
(* C6: well-info labels are matched case-insensitively: for every grid in   *)
(* which some cell contains a field's label in any letter case (e.g.        *)
(* 'CONCESSION' or 'report no') and has a cell to its right,                *)
(* extract_well_info sets that field to the string form of the right-hand   *)
(* cell.                                                                    *)
C6_AnyCase(field) ==
    {rc \in WI_Cells : ContainsNoCase(WI_Label(field), WI_Text(rc)) /\ WI_HasRight(rc)}

\* C6: a concession / report_no label in any letter case with a cell to its right
\* sets the field to the string form of such a right-hand cell
C6_CaseInsensitive ==
    WI_Done =>
        \A field \in {"concession", "report_no"} :
            C6_AnyCase(field) # {} =>
                /\ field \in DOMAIN well_info
                /\ \E rc \in C6_AnyCase(field) : well_info[field] = WI_Right(rc)

-----------------------------------------------------------------------------
(* C7: in extract_well_info, when several rows contain a field's label      *)
(* cell, the field's final value is the right-hand neighbour of the label   *)
(* cell in the last such row (rows scanned top to bottom, and within a row  *)
(* only the first label cell is used); a matching row whose label cell is   *)
(* in the last column leaves the value set by an earlier row unchanged.     *)
C7_IsLabel(field, cell) ==
    /\ In(WI_Label(field), str(cell))
    /\ field \in {"well", "date", "rkb"} => In(<<":-">>, str(cell))
C7_LabelCols(field, r) == {c \in 1..Len(df[r]) : C7_IsLabel(field, df[r][c])}
C7_LabelRows(field) == {r \in 1..Len(df) : C7_LabelCols(field, r) # {}}
C7_First(field, r) == CHOOSE c \in C7_LabelCols(field, r) : \A d \in C7_LabelCols(field, r) : c <= d
\* the rows whose first label cell has a right-hand neighbour
C7_Setting(field) == {r \in C7_LabelRows(field) : C7_First(field, r) < Len(df[r])}
C7_Last(S) == CHOOSE r \in S : \A q \in S : q <= r

\* geologist is set by the label scan only when some row holds the label in any case
C7_Scanned(field) ==
    field = "geologist" =>
        \E rc \in WI_Cells : ContainsNoCase(<<"Geologist">>, WI_Text(rc))

\* C7: each field ends as the right-hand neighbour of the first label cell of the
\* last row whose first label cell has one, and is absent when there is no such row
C7_LastRowWins ==
    WI_Done =>
        \A i \in 1..Len(Fields) :
            LET field == Fields[i] IN
            C7_Scanned(field) =>
                IF C7_Setting(field) = {} THEN field \notin DOMAIN well_info
                ELSE /\ field \in DOMAIN well_info
                     /\ LET r == C7_Last(C7_Setting(field)) IN
                        well_info[field] = str(df[r][C7_First(field, r) + 1])

\* a field set by two rows to different values, followed by a row whose label cell
\* is in the last column
C7_Witness ==
    /\ WI_Done
    /\ \E field \in {"concession", "rkb"} :
          /\ Cardinality(C7_Setting(field)) = 2
          /\ \E r \in C7_LabelRows(field) :
                /\ r \notin C7_Setting(field)
                /\ \A q \in C7_Setting(field) : q < r
          /\ \E q \in C7_Setting(field) :
                str(df[q][C7_First(field, q) + 1]) # well_info[field]

-----------------------------------------------------------------------------
(* C8: for each of the fields well, date, rkb and spud_date,                *)
(* extract_well_info sets the field only from a label cell that also        *)
(* contains the marker ':-'; a cell containing 'Spud Date' (or 'Well',      *)
(* 'Date', 'RKB') without ':-' never sets the field, while concession and   *)
(* report_no are set from a cell containing the label alone.                *)
C8_Marked(field) ==
    {rc \in WI_Cells : /\ In(WI_Label(field), WI_Text(rc)) /\ In(<<":-">>, WI_Text(rc))
                       /\ WI_HasRight(rc)}
C8_Plain(field) ==
    {rc \in WI_Cells : In(WI_Label(field), WI_Text(rc)) /\ WI_HasRight(rc)}

C8_OnlyMarked(fields) ==
    \A field \in fields :
        field \in DOMAIN well_info =>
            \E rc \in C8_Marked(field) : well_info[field] = WI_Right(rc)

C8_LabelAlone(fields) ==
    \A field \in fields :
        /\ C8_Plain(field) # {} => field \in DOMAIN well_info
        /\ field \in DOMAIN well_info =>
              \E rc \in C8_Plain(field) : well_info[field] = WI_Right(rc)

\* C8, as stated: well, date, rkb and spud_date are set only from a label cell with
\* ':-'; concession and report_no from the label alone
C8_Marker ==
    WI_Done => /\ C8_OnlyMarked({"well", "date", "rkb", "spud_date"})
               /\ C8_LabelAlone({"concession", "report_no"})

\* C8, as amended: well, date and rkb are set only from a label cell with ':-';
\* concession, report_no and spud_date from the label alone
C8_MarkerAmended ==
    WI_Done => /\ C8_OnlyMarked({"well", "date", "rkb"})
               /\ C8_LabelAlone({"concession", "report_no", "spud_date"})

\* spud_date set from an unmarked 'Spud Date' cell, in a sheet where an unmarked
\* 'Well' cell set nothing
C8_Witness ==
    /\ WI_Done
    /\ "spud_date" \in DOMAIN well_info /\ C8_Marked("spud_date") = {}
    /\ "date" \notin DOMAIN well_info
    /\ "well" \notin DOMAIN well_info /\ C8_Plain("well") # {}

-----------------------------------------------------------------------------
(* C9: geologist fallback in extract_well_info: when no row of the grid     *)
(* contains the label 'Geologist', the last rows of the grid (at most 10)   *)
(* are scanned from the bottom upward for a cell containing one of the      *)
(* known names ('Youssef', 'Mahmoud', 'Soliman'), and geologist is set to   *)
(* the first match met from the bottom, i.e. the matching cell in the       *)
(* bottom-most matching row; when some row does contain 'Geologist', the    *)
(* fallback scan is not run.                                                *)
C9_IsName(cell) ==
    In(<<"Youssef">>, str(cell)) \/ In(<<"Mahmoud">>, str(cell)) \/ In(<<"Soliman">>, str(cell))
C9_NameCols(r) == {c \in 1..Len(df[r]) : C9_IsName(df[r][c])}
\* the rows the code's range() visits: the last GeoWindow - 1 rows, never the first
C9_Visited == {r \in 1..Len(df) : r > 1 /\ r > Len(df) - GeoWindow + 1}
C9_NameRows == {r \in C9_Visited : C9_NameCols(r) # {}}
C9_HasLabel == \E rc \in WI_Cells : ContainsNoCase(<<"Geologist">>, WI_Text(rc))

\* C9: with no 'Geologist' label in the sheet, geologist is a name cell of the
\* bottom-most row, among the rows the fallback visits, that holds a known name; with
\* a label, it is never taken from the fallback
C9_BottomMostWins ==
    WI_Done =>
        /\ (~C9_HasLabel /\ C9_NameRows # {}) =>
              LET r == CHOOSE q \in C9_NameRows : \A p \in C9_NameRows : p <= q IN
              /\ "geologist" \in DOMAIN well_info
              /\ \E c \in C9_NameCols(r) : well_info["geologist"] = str(df[r][c])
        /\ (C9_HasLabel /\ "geologist" \in DOMAIN well_info) =>
              \E rc \in WI_Cells :
                  /\ In(<<"Geologist">>, WI_Text(rc)) /\ WI_HasRight(rc)
                  /\ well_info["geologist"] = WI_Right(rc)

-----------------------------------------------------------------------------
(* C10: in extract_gas_readings, a cell containing 'T.G' met while no       *)
(* current formation is set changes nothing; met while a formation is       *)
(* current, it looks at the next up to 4 rows in order and assigns as that  *)
(* formation's TG the column-3 value of the first row whose column 3 is     *)
(* present and numeric, then stops looking; a later 'Max. Gas Reading at:'  *)
(* cell naming the same formation replaces that formation's entry with an   *)
(* empty one, discarding the TG recorded before.                            *)
C10_AtCell == fn = "extract_gas_readings" /\ pc = "cells" /\ idx <= Len(df)
C10_Text == str(df[idx][col])
C10_IsMax == In(<<"Max", ".", " ", "Gas", " ", "Reading", " ", "at", ":">>, C10_Text)
C10_IsTG == ~C10_IsMax /\ In(<<"T", ".", "G">>, C10_Text)
C10_NoFormation == current_formation = None \/ current_formation = <<>>
C10_Next4 == {n \in 1..Len(df) : idx < n /\ n <= idx + 4}
C10_Numeric(cell) == cell # NaN /\ isdigit(StripDots(cell))
C10_Converts(cell) == Cardinality({i \in 1..Len(cell) : cell[i] = "."}) <= 1
C10_First(S) == CHOOSE n \in S : \A m \in S : n <= m

\* the effect of a 'T.G' cell when the rows `found` of the next 4 qualify
C10_TGEffect(found) ==
    /\ current_formation' = current_formation
    /\ IF found = {} THEN gas_data' = gas_data
       ELSE /\ DOMAIN gas_data' = DOMAIN gas_data
            /\ \A f \in DOMAIN gas_data :
                  IF f = current_formation
                  THEN /\ "TG" \in DOMAIN gas_data'[f]
                       /\ gas_data'[f]["TG"] = float(df[C10_First(found)][4])
                  ELSE gas_data'[f] = gas_data[f]

\* the cell is not a repetition of a cell to its left in the row (for a repeated
\* cell the code names the formation by the neighbour of the first occurrence)
C10_FirstSuch == \A c \in 1..(col - 1) : df[idx][c] # df[idx][col]

\* the parts of the claim that do not depend on what `numeric` means
C10_Rest ==
    /\ (C10_IsTG /\ C10_NoFormation) => UNCHANGED <<gas_data, current_formation>>
    /\ (C10_IsMax /\ C10_FirstSuch /\ col < Len(df[idx]) /\ df[idx][col + 1] # NaN)
          => /\ current_formation' = df[idx][col + 1]
             /\ DOMAIN gas_data' = DOMAIN gas_data \cup {current_formation'}
             /\ gas_data'[current_formation'] = EmptyDict
             /\ \A f \in DOMAIN gas_data : f # current_formation' => gas_data'[f] = gas_data[f]
    /\ (~C10_IsMax /\ ~C10_IsTG) => UNCHANGED <<gas_data, current_formation>>

C10_Step ==
    C10_AtCell =>
        /\ C10_Rest
        /\ (C10_IsTG /\ ~C10_NoFormation)
              => C10_TGEffect({n \in C10_Next4 : C10_Numeric(df[n][4])})

\* C10, as stated: every step on a cell has the effect the claim gives, the TG being
\* taken from the first of the next 4 rows whose column 3 is present and all-digit
C10_TG == [][C10_Step]_vars

C10_StepAmended ==
    C10_AtCell =>
        /\ C10_Rest
        /\ (C10_IsTG /\ ~C10_NoFormation)
              => C10_TGEffect({n \in C10_Next4 :
                                  C10_Numeric(df[n][4]) /\ C10_Converts(df[n][4])})

\* C10, as amended: the TG is taken from the first of the next 4 rows whose column 3
\* is present, all-digit once '.' is stripped, and converts to a float
C10_TGAmended == [][C10_StepAmended]_vars

\* the scan is at a 'Max. Gas Reading at:' cell that names a formation whose TG was
\* recorded, after a 'T.G' row whose first numeric look-ahead row did not convert
C10_Witness ==
    /\ C10_AtCell /\ C10_IsMax /\ col = 1
    /\ df[idx][2] \in DOMAIN gas_data
    /\ "TG" \in DOMAIN gas_data[df[idx][2]]
    /\ \E r \in 1..(idx - 1) :
          /\ In(<<"T", ".", "G">>, row_str(df[r]))
          /\ r + 2 < idx
          /\ C10_Numeric(df[r + 1][4]) /\ ~C10_Converts(df[r + 1][4])

-----------------------------------------------------------------------------
(* C11: in extract_formation_tops, every accepted row after the header      *)
(* yields exactly one FormationTop, in grid order, that always has a name;  *)
(* prognosed_md (column 7) and actual_md (column 9) are each set only when  *)
(* the cell is present and all-digit after stripping '.', and a cell that   *)
(* passes this test but fails float conversion (such as '1.2.3') leaves     *)
(* only that sub-field absent, the FormationTop still being emitted with    *)
(* its name and other sub-field.                                            *)
C11_Tokens ==
    {<<>>, <<" ">>, <<"DABAA">>, <<"APOLLONIA">>, <<"KHOMAN">>, <<"ABU", " ", "ROASH">>,
     <<"BAHARIYA">>, <<"KHARITA">>, <<"T", ".", "D", ".">>}

\* row j is past a header row, is no header row, and its column 2 names a formation
C11_Accepted(j) ==
    /\ \E h \in 1..(j - 1) : C2_HeaderText(df[h])
    /\ ~C2_HeaderText(df[j])
    /\ Len(df[j]) >= 3 /\ df[j][3] # NaN /\ df[j][3] \notin C11_Tokens

\* the cell of 0-based column c passes the test / converts as well
C11_Passes(row, c) == Len(row) > c /\ row[c + 1] # NaN /\ isdigit(StripDots(row[c + 1]))
C11_Converts(row, c) == Cardinality({i \in 1..Len(row[c + 1]) : row[c + 1][i] = "."}) <= 1

C11_SubField(top, row, key, c) ==
    /\ key \in DOMAIN top <=> (C11_Passes(row, c) /\ C11_Converts(row, c))
    /\ key \in DOMAIN top => top[key] = float(row[c + 1])

\* C11: the tops are those of the accepted rows scanned so far, one each and in grid
\* order; each has a name, and has prognosed_md / actual_md exactly when column 7 /
\* column 9 is present, all-digit once '.' is stripped, and converts to a float
C11_SubFields ==
    fn = "extract_formation_tops" =>
        /\ Len(src) = Len(formations)
        /\ \A i, j \in 1..Len(src) : i < j => src[i] < src[j]
        /\ {src[i] : i \in 1..Len(src)} = {j \in 1..(idx - 1) : C11_Accepted(j)}
        /\ \A i \in 1..Len(formations) :
              LET top == formations[i]
                  row == df[src[i]]
              IN /\ "name" \in DOMAIN top /\ top["name"] = row[3]
                 /\ DOMAIN top \subseteq {"name", "prognosed_md", "actual_md"}
                 /\ C11_SubField(top, row, "prognosed_md", 7)
                 /\ C11_SubField(top, row, "actual_md", 9)

\* a finished run that returned two tops, one of them with a column 7 that passes
\* the digit test and does not convert: it has its name and actual_md only
C11_Witness ==
    /\ fn = "extract_formation_tops" /\ pc = "done"
    /\ Len(formations) = 2
    /\ \E i \in 1..2 :
          /\ C11_Passes(df[src[i]], 7) /\ ~C11_Converts(df[src[i]], 7)
          /\ DOMAIN formations[i] = {"name", "actual_md"}
    /\ \E i \in 1..2 : DOMAIN formations[i] = {"name", "prognosed_md", "actual_md"}

-----------------------------------------------------------------------------
(* C12: in extract_lithological_description the current depth and the       *)
(* current lithology are never cleared once set. A 'Depth:' row whose text  *)
(* does not match the 'From <int> To <int>' pattern keeps the previous      *)
(* depth range, and a section with no 'Lithology:' row keeps the previous   *)
(* section's lithology, so such a section with non-empty text is still      *)
(* emitted, labelled with the depth and/or lithology carried over from an   *)
(* earlier section.                                                         *)

\* set, in the sense of the `if current_depth and current_lithology` test
C12_Set(x) == x # None /\ x # <<>>

\* the text holds 'From', a digit, 'To' and a digit, in this order
C12_DepthMatches(rs) ==
    \E f \in 1..Len(rs) :
        /\ rs[f] = "From"
        /\ \E a \in (f + 1)..Len(rs) :
              /\ rs[a] \in Digits
              /\ \E t \in (a + 1)..Len(rs) :
                    /\ rs[t] = "To"
                    /\ \E b \in (t + 1)..Len(rs) : rs[b] \in Digits

C12_IsLithologyRow(j) == ~C4_IsDepthRow(j) /\ In(<<"Lithology", ":">>, row_str(df[j]))

\* nothing but the '*' marker and blanks follows 'Lithology:'
C12_NoLithologyText(rs) ==
    \E i \in 1..(Len(rs) - 1) :
        /\ SubSeq(rs, i, i + 1) = <<"Lithology", ":">>
        /\ SelectSeq(SubSeq(rs, i + 2, Len(rs)), LAMBDA x : x # " ") = <<"*">>

\* what every step keeps: the depth changes only at a 'Depth:' row that matches the
\* pattern, the lithology only at a 'Lithology:' row, and a 'Depth:' row or the end
\* of the grid reached with depth, lithology and text set emits a record labelled
\* with the depth and the lithology held at that moment
C12_Carry ==
    LET atRow == pc = "rows" /\ idx <= Len(df)
        atEnd == pc = "rows" /\ idx > Len(df)
    IN /\ current_depth' # current_depth
            => atRow /\ C4_IsDepthRow(idx) /\ C12_DepthMatches(row_str(df[idx]))
       /\ current_lithology' # current_lithology => atRow /\ C12_IsLithologyRow(idx)
       /\ (/\ (atRow /\ C4_IsDepthRow(idx)) \/ atEnd
           /\ C12_Set(current_depth) /\ C12_Set(current_lithology)
           /\ current_description # <<>>)
            => /\ Len(descriptions') = Len(descriptions) + 1
               /\ descriptions'[Len(descriptions')].depth = current_depth
               /\ descriptions'[Len(descriptions')].lithology = current_lithology

C12_Step ==
    fn = "extract_lithological_description" =>
        /\ C12_Carry
        /\ C12_Set(current_depth) => C12_Set(current_depth')
        /\ C12_Set(current_lithology) => C12_Set(current_lithology')

\* C12 as stated: once set, the depth and the lithology stay set at every step, and
\* they are carried from section to section into the emitted records
C12_NeverCleared == [][C12_Step]_vars

C12_StepAmended ==
    fn = "extract_lithological_description" =>
        /\ C12_Carry
        /\ C12_Set(current_depth) => C12_Set(current_depth')
        /\ current_lithology # None => current_lithology' # None
        /\ (C12_Set(current_lithology) /\ ~C12_Set(current_lithology'))
              => /\ pc = "rows" /\ idx <= Len(df) /\ C12_IsLithologyRow(idx)
                 /\ C12_NoLithologyText(row_str(df[idx]))
                 /\ current_lithology' = <<>>
        /\ ~C12_Set(current_lithology) => descriptions' = descriptions

\* C12 amended: the depth, once set, stays set, and the lithology is never put back
\* to None, but a 'Lithology: *' row with no text after the marker replaces it by the
\* empty string, and while it is empty no record is emitted; otherwise the depth and
\* the lithology are carried from section to section into the emitted records
C12_CarriedOver == [][C12_StepAmended]_vars

\* a finished run whose record comes from a section opened by a 'Depth:' row that
\* does not match the pattern and holding no 'Lithology:' row: its depth and its
\* lithology are those of an earlier section
C12_Witness ==
    /\ fn = "extract_lithological_description" /\ pc = "done"
    /\ \E i \in 1..Len(descriptions) :
          LET open == C4_PrevDepthRow(src[i]) IN
          /\ open > 1
          /\ ~C12_DepthMatches(row_str(df[open]))
          /\ \A j \in open..(src[i] - 1) : ~C12_IsLithologyRow(j)
          /\ \E j \in 1..(open - 1) : C4_IsDepthRow(j) /\ C12_DepthMatches(row_str(df[j]))
          /\ \E j \in 1..(open - 1) : C12_IsLithologyRow(j)
          /\ descriptions[i].depth = current_depth
          /\ descriptions[i].lithology = current_lithology

====
